---- MODULE Spec2Model ----
(***************************************************************************)
(* The streaming conversation relay of sin-spoilers: the useConversations  *)
(* hook (src/lib/useConversations.ts).  One turn is one call of send():    *)
(* it runs synchronously up to its first await and then continues, one     *)
(* await at a time, as the stream fetch, the stream reads and the          *)
(* classification fetch settle.  React state is written through the        *)
(* setters; the send callback reads isLoading and messages from the        *)
(* closure of the last render.                                             *)
(***************************************************************************)
EXTENDS Integers, Sequences, FiniteSets, TLC

VARIABLES
    messages,     \* useState<ChatMessage[]>: the message list
    isLoading,    \* useState(false)
    isStreaming,  \* useState(false)
    inference,    \* useState<Inference | null>
    abortRef,     \* useRef<AbortController | null>: 0 is null, else a controller
    aborted,      \* the controllers on which abort() was called
    rendered,     \* the isLoading and messages captured by the current send callback
    turns,        \* one record per accepted send(): its locals and its position
    server        \* the route /api/chat: its API key and the request it last took

hook == <<messages, isLoading, isStreaming, inference, abortRef, aborted,
          rendered, turns>>

vars == <<messages, isLoading, isStreaming, inference, abortRef, aborted,
          rendered, turns, server>>

---------------------------------------------------------------------------
(* Bounds of the model *)

MaxTurns == 2           \* accepted send() calls, under Spec
MaxChunks == 2          \* chunks delivered on the response streams, under Spec
MaxStreamTurns == 1     \* accepted send() calls, under SpecStream
MaxStreamChunks == 2    \* chunks delivered on the response streams, under SpecStream
MaxDeltas == 2          \* chunks of one provider stream, under SpecEndpoint
MaxServedTurns == 2     \* accepted send() calls, under SpecServed
MaxServedDeltas == 1    \* chunks of one provider stream, under SpecServed
MaxThrownTurns == 1     \* accepted send() calls, under SpecThrown
MaxThrownChunks == 1    \* chunks delivered on the response stream, under SpecThrown

---------------------------------------------------------------------------
(* Text.  A string is the sequence of its characters, each written as a    *)
(* token; the empty string is << >>.                                       *)

StreamId == "__stream"
Cursor == "U+258D"
Replacement == "U+FFFD"
Space == " "

\* crypto.randomUUID() at one of the three places of send() that call it, in
\* turn t: a turn runs each place at most once, so the ids are distinct
Uuid(place, t) == place \o "-" \o ToString(t)

Chr(cp) ==
    CASE cp = 97 -> "a"
      [] cp = 104 -> "h"
      [] cp = 233 -> "U+00E9"
      [] cp = 123 -> "{"
      [] cp = 125 -> "}"
      [] OTHER -> ToString(cp)

RECURSIVE TrimStart(_)
TrimStart(s) ==
    IF s # <<>> /\ Head(s) = Space THEN TrimStart(Tail(s)) ELSE s

RECURSIVE TrimEnd(_)
TrimEnd(s) ==
    IF s # <<>> /\ s[Len(s)] = Space THEN TrimEnd(SubSeq(s, 1, Len(s) - 1)) ELSE s

Trim(s) == TrimEnd(TrimStart(s))

\* The texts a caller passes to send()
UserTexts == { <<>>, <<Space>>, <<"h">>, <<Space, "h", Space>> }

---------------------------------------------------------------------------
(* TextDecoder("utf-8"), over one- and two-byte sequences.  pend is the    *)
(* lead byte the decoder holds between calls, << >> when it holds none.    *)

IsAscii(b) == b < 128
IsLead2(b) == b >= 194 /\ b <= 223
IsCont(b) == b >= 128 /\ b <= 191

DecodeByte(pend, b) ==
    IF pend = <<>>
    THEN IF IsAscii(b) THEN [pend |-> <<>>, out |-> <<Chr(b)>>]
         ELSE IF IsLead2(b) THEN [pend |-> <<b>>, out |-> <<>>]
         ELSE [pend |-> <<>>, out |-> <<Replacement>>]
    ELSE IF IsCont(b)
         THEN [pend |-> <<>>, out |-> <<Chr((pend[1] % 32) * 64 + (b % 64))>>]
         ELSE IF IsAscii(b) THEN [pend |-> <<>>, out |-> <<Replacement, Chr(b)>>]
         ELSE IF IsLead2(b) THEN [pend |-> <<b>>, out |-> <<Replacement>>]
         ELSE [pend |-> <<>>, out |-> <<Replacement, Replacement>>]

\* decoder.decode(value, { stream: true }): the decoder keeps an incomplete tail
RECURSIVE DecodeStream(_, _)
DecodeStream(pend, bytes) ==
    IF bytes = <<>> THEN [pend |-> pend, out |-> <<>>]
    ELSE LET one == DecodeByte(pend, Head(bytes))
             rest == DecodeStream(one.pend, Tail(bytes))
         IN  [pend |-> rest.pend, out |-> one.out \o rest.out]

\* decoder.decode(): the end-of-stream flush of an incomplete tail
DecodeFlush(pend) == IF pend = <<>> THEN <<>> ELSE <<Replacement>>

\* The UTF-8 decoding of a whole byte sequence
Utf8Decode(bytes) ==
    LET d == DecodeStream(<<>>, bytes) IN d.out \o DecodeFlush(d.pend)

\* The code point a character token stands for
CodePoint(c) == CHOOSE cp \in 0..255 : Chr(cp) = c

\* TextEncoder.encode, over code points below 0x800
RECURSIVE Utf8Encode(_)
Utf8Encode(text) ==
    IF text = <<>> THEN <<>>
    ELSE LET cp == CodePoint(Head(text))
         IN  (IF cp < 128 THEN <<cp>> ELSE <<192 + (cp \div 64), 128 + (cp % 64)>>)
                 \o Utf8Encode(Tail(text))

RECURSIVE Flatten(_)
Flatten(chunks) ==
    IF chunks = <<>> THEN <<>> ELSE Head(chunks) \o Flatten(Tail(chunks))

\* The bytes 'a', 0xC3 and 0xA9 (0xC3 0xA9 is U+00E9)
Bytes == {97, 195, 169}

\* A chunk of the response stream as reader.read() yields it
Chunks == { <<b>> : b \in Bytes }

---------------------------------------------------------------------------
(* Messages and the values a turn can meet *)

UserMsg(id, text) == [id |-> id, role |-> "user", content |-> text]
AssistantMsg(id, text) == [id |-> id, role |-> "assistant", content |-> text]

\* ({ role, content }) => ({ role, content })
RoleContent(m) == [role |-> m.role, content |-> m.content]

SystemMessage == [role |-> "system", content |-> <<"systemMessage">>]

\* The values a rejected await throws
NetworkError == [isError |-> TRUE, message |-> <<"Failed to fetch">>]
AbortError == [isError |-> TRUE, message |-> <<"signal is aborted without reason">>]
SyntaxError == [isError |-> TRUE, message |-> <<"Unexpected token">>]

\* An Error with an empty message, and a thrown value that is not an Error
EmptyError == [isError |-> TRUE, message |-> <<>>]
NotAnError == [isError |-> FALSE, message |-> <<>>]

\* err before the catch has bound it
NotThrown == [isError |-> FALSE, message |-> <<"undefined">>]

Fallback == <<"Lo siento, hubo un problema al responder. Intenta de nuevo en un momento.">>

\* inference === null, and a body without the inference field
NoInference == [mediaType |-> "null", title |-> "null", position |-> "null"]
Book == [mediaType |-> "book", title |-> "", position |-> "early"]

\* The statuses of a response to the classification request
InferStatuses == {200, 500}

\* The parsed bodies res.json() can resolve with: { inference }, { error }, {}
InferBodies ==
    { [inference |-> Book, error |-> <<>>],
      [inference |-> NoInference,
       error |-> <<"Missing NEXT_PUBLIC_OPENAI_API_KEY on server">>],
      [inference |-> NoInference, error |-> <<>>] }

\* Response.ok
Ok(status) == status >= 200 /\ status <= 299

\* `Request failed: ${res.status}`
RequestFailed(status) == <<"Request failed: " \o ToString(status)>>

---------------------------------------------------------------------------
(* The pieces of send() *)

\* messages of both request bodies: the closure's list, not the live state
RequestMessages(history, text) ==
    <<SystemMessage>> \o history \o <<[role |-> "user", content |-> text]>>

\* The body of the streaming request: JSON.stringify({ stream: true, messages })
StreamRequest(history, text) ==
    [stream |-> TRUE, messages |-> RequestMessages(history, text)]

\* A classification body that also carries the reply as a message
InferRequestWithReply(history, text, assistantText) ==
    [inferOnly |-> TRUE,
     lastAnswer |-> assistantText,
     messages |-> Append(RequestMessages(history, text),
                         [role |-> "assistant", content |-> assistantText])]

\* The body of the classification request:
\* JSON.stringify({ inferOnly: true, lastAnswer: assistantText, messages })
InferRequest(history, text, assistantText) ==
    [inferOnly |-> TRUE,
     lastAnswer |-> assistantText,
     messages |-> RequestMessages(history, text)]

\* No classification request issued yet
NoRequest == [inferOnly |-> FALSE, lastAnswer |-> <<>>, messages |-> <<>>]

\* A filter that drops every assistant message
DropAssistant(prev) == SelectSeq(prev, LAMBDA m : m.role # "assistant")

\* prev.filter((m) => m.role !== "assistant" || m.id !== "__stream")
DropAssistantPlaceholder(prev) ==
    SelectSeq(prev, LAMBDA m : m.role # "assistant" \/ m.id # StreamId)

\* prev.filter((m) => m.id !== "__stream")
DropPlaceholder(prev) == SelectSeq(prev, LAMBDA m : m.id # StreamId)

\* assistantText += decoder.decode(value, { stream: true })
AccumulateReordered(assistantText, fragment) == fragment \o assistantText

Accumulate(assistantText, fragment) == assistantText \o fragment

\* the updater of the stream loop: the placeholder carries the text and the caret
ShowPartial(prev, assistantText) ==
    Append(DropAssistantPlaceholder(prev),
           AssistantMsg(StreamId, assistantText \o <<Cursor>>))

FinalizeKeepsPlaceholder(prev, id, assistantText) ==
    IF assistantText # <<>> THEN Append(prev, AssistantMsg(id, assistantText)) ELSE prev

\* the updater after the loop: the placeholder gives way to the final message
Finalize(prev, id, assistantText) ==
    IF assistantText # <<>>
    THEN Append(DropPlaceholder(prev), AssistantMsg(id, assistantText))
    ELSE DropPlaceholder(prev)

\* A catch that shows the fallback text whatever was thrown
CatchContentGeneric(err) == Fallback

\* The catch without the || of its content
CatchContentNoFallback(err) ==
    IF err.isError THEN err.message ELSE <<"Unknown error">>

\* catch: err instanceof Error ? err.message : "Unknown error", then || fallback
CatchContent(err) ==
    LET message == IF err.isError THEN err.message ELSE <<"Unknown error">>
    IN  IF message # <<>> THEN message ELSE Fallback

\* the updater of the catch block
AppendError(prev, id, err) == Append(prev, AssistantMsg(id, CatchContent(err)))

\* abortRef.current?.abort()
AbortCurrent == IF abortRef = 0 THEN aborted ELSE aborted \cup {abortRef}

\* The signal the await a turn is suspended on was given
AwaitSignal(tr) == IF tr.pc \in {"fetchInfer", "json"} THEN tr.inferSignal ELSE tr.signal

InFlight(tr) == tr.pc # "done"

---------------------------------------------------------------------------
(* The endpoint: POST of app/api/chat/route.ts.  A provider call is        *)
(* written by its outcome: it throws, or it resolves with a text.          *)

Threw == [throws |-> TRUE, text |-> <<>>]
Gave(text) == [throws |-> FALSE, text |-> text]

\* conversations.create and the non-streaming chat.completions.create: the
\* call throws, yields no text (or does not exist), or yields an answer
Outcomes == { Threw, Gave(<<>>), Gave(<<"a">>) }

\* The texts the model can answer the classification prompt with
BookJson == <<"{\"mediaType\":\"book\",\"title\":\"\",\"position\":\"early\"}">>
BlankJson == <<"{\"mediaType\":\"\",\"title\":\"\",\"position\":\"\"}">>
PodcastJson == <<"{\"mediaType\":\"podcast\"}">>
NumberJson == <<"{\"mediaType\":\"movie\",\"title\":7,\"position\":0}">>
NullJson == <<"null">>
NotJson == <<"I think it is a book.">>

ModelOutputs ==
    { BookJson, BlankJson, PodcastJson, NumberJson, NullJson, NotJson, <<>> }

\* The outcomes of the chat.completions.create of extractInference
InferOutcomes == { Threw } \cup { Gave(text) : text \in ModelOutputs }

\* A property the parsed object does not have, and the numbers 7 and 0
Undefined == "undefined"
Seven == "number 7"
Zero == "number 0"

\* JSON.parse over the texts above: it throws on a text that is not JSON
JsonParse(text) ==
    CASE text = BookJson ->
           [ok |-> TRUE, isNull |-> FALSE,
            value |-> [mediaType |-> "book", title |-> "", position |-> "early"]]
      [] text = BlankJson ->
           [ok |-> TRUE, isNull |-> FALSE,
            value |-> [mediaType |-> "", title |-> "", position |-> ""]]
      [] text = PodcastJson ->
           [ok |-> TRUE, isNull |-> FALSE,
            value |-> [mediaType |-> "podcast", title |-> Undefined,
                       position |-> Undefined]]
      [] text = NumberJson ->
           [ok |-> TRUE, isNull |-> FALSE,
            value |-> [mediaType |-> "movie", title |-> Seven, position |-> Zero]]
      [] text = NullJson ->
           [ok |-> TRUE, isNull |-> TRUE,
            value |-> [mediaType |-> Undefined, title |-> Undefined,
                       position |-> Undefined]]
      [] OTHER ->
           [ok |-> FALSE, isNull |-> FALSE,
            value |-> [mediaType |-> Undefined, title |-> Undefined,
                       position |-> Undefined]]

\* v || "", with no String() around it
StringOrUnconverted(v) == IF v \in { Undefined, "", Zero } THEN "" ELSE v

\* String(v || "")
StringOr(v) ==
    IF v \in { Undefined, "", Zero } THEN ""
    ELSE IF v = Seven THEN "7"
    ELSE v

\* { mediaType: "", title: "", position: "" }
Unknown == [mediaType |-> "", title |-> "", position |-> ""]

\* What a call of an async function does: it resolves with a value or rejects
Resolved(value) == [threw |-> FALSE, value |-> value]
Rejected == [threw |-> TRUE, value |-> Unknown]

\* Lines 157-162: JSON.parse(text) and the three property reads; a property
\* read of null throws
ParseAndPick(text) ==
    LET parsed == JsonParse(text) IN
    IF ~parsed.ok \/ parsed.isNull THEN Rejected
    ELSE Resolved([mediaType |-> StringOr(parsed.value.mediaType),
                   title |-> StringOr(parsed.value.title),
                   position |-> StringOr(parsed.value.position)])

\* extractInference with the inner try left without its catch
ExtractInferenceUnguarded(out) ==
    IF out.throws THEN Resolved(Unknown) ELSE ParseAndPick(out.text)

\* extractInference, given the outcome out of its provider call
ExtractInference(out) ==
    IF out.throws THEN Resolved(Unknown)
    ELSE LET picked == ParseAndPick(out.text)
         IN  IF picked.threw THEN Resolved(Unknown) ELSE picked

Instructions == [role |-> "system", content |-> <<"instructions">>]
InferInstructions == [role |-> "system", content |-> <<"sys">>]

\* The provider call of extractInference: what it passes and how it ends
InferCall(history, lastAnswer, outcome) ==
    [api |-> "chat.completions", purpose |-> "inference", stream |-> FALSE,
     messages |-> <<InferInstructions>> \o history
                    \o <<[role |-> "assistant", content |-> lastAnswer],
                         [role |-> "user", content |-> <<"Return the JSON now.">>]>>,
     outcome |-> outcome]

\* One of the three completion calls of POST: what it passes and how it ends
CompletionCall(api, stream, incoming, outcome) ==
    [api |-> api, purpose |-> "completion", stream |-> stream,
     messages |-> <<Instructions>> \o incoming,
     outcome |-> outcome]

\* A streaming create resolves with an iterator, not with a text
Opened(outcome) == IF outcome.throws THEN Threw ELSE Gave(<<>>)

\* The body of a JSON response; << >> and NoInference are absent fields
Doc(message, inferred, error) ==
    [message |-> message, inference |-> inferred, error |-> error]

NoDoc == Doc(<<>>, NoInference, <<>>)

MissingKey == <<"Missing NEXT_PUBLIC_OPENAI_API_KEY on server">>
EmptyResponse == <<"Empty response from model">>
FailedToGenerate == <<"Failed to generate response">>

\* What POST returns, with the provider calls it made on the way; streams
\* says the body is the ReadableStream of lines 93-106
JsonResponse(status, doc, calls) ==
    [status |-> status, type |-> "application/json", doc |-> doc,
     calls |-> calls, streams |-> FALSE]

TextResponse(calls) ==
    [status |-> 200, type |-> "text/plain", doc |-> NoDoc,
     calls |-> calls, streams |-> TRUE]

\* The environment of one call of POST: the outcomes of its provider calls
Envs == [conv : Outcomes, chat : Outcomes, infer : InferOutcomes]

\* POST with the missing-key reply carrying no error text
PostWithoutErrorText(apiKey, body, env) ==
    JsonResponse(IF apiKey THEN 200 ELSE 500, NoDoc, <<>>)

\* POST(req), for the parsed body of req, the API key and the environment
POST(apiKey, body, env) ==
    IF ~body.parsed
    THEN JsonResponse(500, Doc(<<>>, NoInference, FailedToGenerate), <<>>)
    ELSE IF ~apiKey
    THEN JsonResponse(500, Doc(<<>>, NoInference, MissingKey), <<>>)
    ELSE IF body.inferOnly
    THEN LET inferCalls == <<InferCall(body.messages, body.lastAnswer, env.infer)>>
             extracted == ExtractInference(env.infer)
         IN  IF extracted.threw
             THEN JsonResponse(500, Doc(<<>>, NoInference, FailedToGenerate), inferCalls)
             ELSE JsonResponse(200, Doc(<<>>, extracted.value, <<>>), inferCalls)
    ELSE LET convCalls ==
                 <<CompletionCall("conversations", FALSE, body.messages, env.conv)>>
             outputText == IF env.conv.throws THEN <<>> ELSE env.conv.text
             extracted == ExtractInference(env.infer)
             chatCalls == convCalls \o
                 <<CompletionCall("chat.completions", body.stream, body.messages,
                                  IF body.stream THEN Opened(env.chat) ELSE env.chat)>>
         IN  IF outputText # <<>> /\ ~extracted.threw
             THEN JsonResponse(200, Doc(outputText, extracted.value, <<>>),
                      convCalls \o <<InferCall(body.messages, outputText, env.infer)>>)
             ELSE IF env.chat.throws
             THEN JsonResponse(500, Doc(<<>>, NoInference, FailedToGenerate), chatCalls)
             ELSE IF body.stream THEN TextResponse(chatCalls)
             ELSE IF env.chat.text = <<>>
             THEN JsonResponse(502, Doc(<<>>, NoInference, EmptyResponse), chatCalls)
             ELSE LET ccCalls == chatCalls \o
                          <<InferCall(body.messages, env.chat.text, env.infer)>>
                  IN  IF extracted.threw
                      THEN JsonResponse(500, Doc(<<>>, NoInference, FailedToGenerate),
                                        ccCalls)
                      ELSE JsonResponse(200, Doc(env.chat.text, extracted.value, <<>>),
                                        ccCalls)

\* Lines 10-14: req.json(), which throws on a body that is not JSON, and the
\* fields POST reads off the parsed body, with their defaults
BodyFields(raw) ==
    [parsed |-> "malformed" \notin DOMAIN raw,
     messages |-> IF "messages" \in DOMAIN raw THEN raw.messages ELSE <<>>,
     stream |-> IF "stream" \in DOMAIN raw THEN raw.stream ELSE FALSE,
     inferOnly |-> IF "inferOnly" \in DOMAIN raw THEN raw.inferOnly ELSE FALSE,
     lastAnswer |-> IF "lastAnswer" \in DOMAIN raw THEN raw.lastAnswer ELSE <<>>]

\* A chunk of the provider's stream: chunk.choices?.[0]?.delta?.content
ProviderChunk(hasChoices, hasDelta, content) ==
    [hasChoices |-> hasChoices, hasDelta |-> hasDelta, content |-> content]

ProviderChunks ==
    { ProviderChunk(FALSE, FALSE, <<>>), ProviderChunk(TRUE, FALSE, <<>>),
      ProviderChunk(TRUE, TRUE, <<>>), ProviderChunk(TRUE, TRUE, <<"a">>),
      ProviderChunk(TRUE, TRUE, <<"U+00E9">>) }

\* chunk.choices?.[0]?.delta?.content || ""
DeltaContent(chunk) ==
    IF chunk.hasChoices /\ chunk.hasDelta THEN chunk.content ELSE <<>>

\* An enqueue that does not look at the delta
EnqueueAlways(chunks, delta) == Append(chunks, Utf8Encode(delta))

\* if (delta) controller.enqueue(encoder.encode(delta))
Enqueue(chunks, delta) ==
    IF delta # <<>> THEN Append(chunks, Utf8Encode(delta)) ELSE chunks

\* JSON.stringify of a reply that carries a message, as a client reading the
\* body as text meets it: the braces and the message text are written, the
\* keys and the other fields are left out
Stringify(doc) == <<"{">> \o doc.message \o <<"}">>

\* The chunks of the body of a response that is not a stream
BodyChunks(res) ==
    IF res.doc.message # <<>> THEN <<Utf8Encode(Stringify(res.doc))>> ELSE <<>>

NoBody == BodyFields([messages |-> <<>>])

NoResponse == [status |-> 0, type |-> "none", doc |-> NoDoc, calls |-> <<>>,
               streams |-> FALSE]

\* The route before its first request
FreshServer(apiKey) ==
    [apiKey |-> apiKey, pc |-> "idle", for |-> 0, body |-> NoBody,
     res |-> NoResponse, upstream |-> <<>>, closes |-> 0, chunks |-> <<>>, closed |-> FALSE,
     ended |-> "no", delivered |-> 0]

---------------------------------------------------------------------------
(* The state after the hook's first render *)

HookInit ==
    /\ messages = <<>>
    /\ isLoading = FALSE
    /\ isStreaming = FALSE
    /\ inference = NoInference
    /\ abortRef = 0
    /\ aborted = {}
    /\ rendered = [isLoading |-> FALSE, messages |-> <<>>]
    /\ turns = <<>>

\* The hook alone: the route is left aside, the responses are any responses
Init == HookInit /\ server = FreshServer(TRUE)

\* A re-render: the send callback is rebuilt over the current state
\* (useCallback deps [isLoading, messages, systemMessage])
Render ==
    /\ rendered # [isLoading |-> isLoading, messages |-> messages]
    /\ rendered' = [isLoading |-> isLoading, messages |-> messages]
    /\ UNCHANGED <<messages, isLoading, isStreaming, inference, abortRef, aborted,
                   turns>>

\* messages.map(({ role, content }) => ({ role, content })) over the messages
\* the callback closed over
ClosureHistory ==
    [i \in 1..Len(rendered.messages) |-> RoleContent(rendered.messages[i])]

\* The locals of a send() that passed its guard, suspended on the stream fetch
NewTurn(text, controller) ==
    [pc |-> "fetchStream",
     text |-> text,
     history |-> ClosureHistory,
     streamBody |-> StreamRequest(ClosureHistory, text),
     inferBody |-> NoRequest,
     signal |-> controller,
     streamOk |-> "pending",
     chunks |-> <<>>,
     pend |-> <<>>,
     assistantText |-> <<>>,
     eos |-> FALSE,
     nfinal |-> 0,
     inferSignal |-> 0,
     status |-> 0,
     caught |-> FALSE,
     thrown |-> NotThrown,
     promise |-> "pending"]

\* send(userText), up to its first await
Send(userText, max) ==
    LET text == Trim(userText) IN
    IF text = <<>> \/ rendered.isLoading
    THEN UNCHANGED vars
    ELSE /\ Len(turns) < max
         /\ isLoading' = TRUE
         /\ messages' = Append(messages, UserMsg(Uuid("user", Len(turns) + 1), text))
         /\ aborted' = AbortCurrent
         /\ abortRef' = Len(turns) + 1
         /\ isStreaming' = TRUE
         /\ turns' = Append(turns, NewTurn(text, Len(turns) + 1))
         /\ UNCHANGED <<inference, rendered>>

\* A try with the finally and no catch: the thrown value leaves send()
FinallyWithoutCatch(t, err) ==
    /\ isLoading' = FALSE
    /\ turns' = [turns EXCEPT ![t].pc = "done", ![t].promise = "rejected"]
    /\ UNCHANGED <<messages, isStreaming, inference, abortRef, aborted, rendered>>

\* The catch of turn t with no finally after it
CatchWithoutFinally(t, err) ==
    /\ messages' = AppendError(messages, Uuid("error", t), err)
    /\ turns' = [turns EXCEPT ![t].pc = "done", ![t].caught = TRUE,
                              ![t].thrown = err, ![t].promise = "fulfilled"]
    /\ UNCHANGED <<isLoading, isStreaming, inference, abortRef, aborted, rendered>>

\* catch and finally of turn t, entered with the thrown value err
CatchFinally(t, err) ==
    /\ messages' = AppendError(messages, Uuid("error", t), err)
    /\ isLoading' = FALSE
    /\ turns' = [turns EXCEPT ![t].pc = "done", ![t].caught = TRUE,
                              ![t].thrown = err, ![t].promise = "fulfilled"]
    /\ UNCHANGED <<isStreaming, inference, abortRef, aborted, rendered>>

\* The finalization with the classification request issued without a signal
FinalizeAndClassifyUnsignalled(t, tr) ==
    /\ isStreaming' = FALSE
    /\ messages' = Finalize(messages, Uuid("final", t), tr.assistantText)
    /\ turns' = [turns EXCEPT ![t] =
                    [tr EXCEPT !.pc = "fetchInfer",
                               !.nfinal = tr.nfinal + 1,
                               !.inferSignal = 0,
                               !.inferBody =
                                   InferRequest(tr.history, tr.text, tr.assistantText)]]
    /\ UNCHANGED <<isLoading, inference, abortRef, aborted, rendered>>

\* Lines 113-137 with the locals tr of turn t: isStreaming cleared, the
\* placeholder replaced, the classification request issued
FinalizeAndClassify(t, tr) ==
    /\ isStreaming' = FALSE
    /\ messages' = Finalize(messages, Uuid("final", t), tr.assistantText)
    /\ turns' = [turns EXCEPT ![t] =
                    [tr EXCEPT !.pc = "fetchInfer",
                               !.nfinal = tr.nfinal + 1,
                               !.inferSignal = abortRef,
                               !.inferBody =
                                   InferRequest(tr.history, tr.text, tr.assistantText)]]
    /\ UNCHANGED <<isLoading, inference, abortRef, aborted, rendered>>

\* The stream fetch resolves with a response
StreamResponse(t, ok) ==
    /\ turns[t].pc = "fetchStream"
    /\ turns[t].signal \notin aborted
    /\ IF ok
       THEN /\ turns' = [turns EXCEPT ![t].pc = "read", ![t].streamOk = "ok"]
            /\ UNCHANGED <<messages, isLoading, isStreaming, inference, abortRef,
                           aborted, rendered>>
       ELSE FinalizeAndClassify(t, [turns[t] EXCEPT !.streamOk = "notok"])

\* The stream fetch rejects: no response
StreamFetchRejects(t) ==
    /\ turns[t].pc = "fetchStream"
    /\ turns[t].signal \notin aborted
    /\ CatchFinally(t, NetworkError)

\* The chunks delivered so far on the streams of turns 1..n
RECURSIVE Delivered(_)
Delivered(n) == IF n = 0 THEN 0 ELSE Len(turns[n].chunks) + Delivered(n - 1)

\* reader.read() resolves with a chunk
StreamChunk(t, chunk, max) ==
    /\ turns[t].pc = "read"
    /\ turns[t].signal \notin aborted
    /\ Delivered(Len(turns)) < max
    /\ LET d == DecodeStream(turns[t].pend, chunk)
           assistantText == Accumulate(turns[t].assistantText, d.out)
       IN  /\ turns' = [turns EXCEPT ![t].chunks = Append(@, chunk),
                                     ![t].pend = d.pend,
                                     ![t].assistantText = assistantText]
           /\ messages' = ShowPartial(messages, assistantText)
    /\ UNCHANGED <<isLoading, isStreaming, inference, abortRef, aborted, rendered>>

\* reader.read() resolves with done
StreamEnd(t) ==
    /\ turns[t].pc = "read"
    /\ turns[t].signal \notin aborted
    /\ FinalizeAndClassify(t, [turns[t] EXCEPT !.eos = TRUE])

\* reader.read() rejects: the connection is lost mid-stream
ReadRejects(t) ==
    /\ turns[t].pc = "read"
    /\ turns[t].signal \notin aborted
    /\ CatchFinally(t, NetworkError)

\* The classification fetch resolves with a response
InferResponse(t, status) ==
    /\ turns[t].pc = "fetchInfer"
    /\ turns[t].inferSignal \notin aborted
    /\ turns' = [turns EXCEPT ![t].pc = "json", ![t].status = status]
    /\ UNCHANGED <<messages, isLoading, isStreaming, inference, abortRef, aborted,
                   rendered>>

\* The classification fetch rejects: no response
InferFetchRejects(t) ==
    /\ turns[t].pc = "fetchInfer"
    /\ turns[t].inferSignal \notin aborted
    /\ CatchFinally(t, NetworkError)

\* res.json() resolves with data, the inference taken before res.ok is looked at
JsonResolvesBeforeCheck(t, data) ==
    /\ turns[t].pc = "json"
    /\ turns[t].inferSignal \notin aborted
    /\ inference' = IF data.inference # NoInference THEN data.inference ELSE inference
    /\ isLoading' = FALSE
    /\ IF ~Ok(turns[t].status)
       THEN /\ messages' = AppendError(messages, Uuid("error", t),
                                [isError |-> TRUE,
                                 message |-> IF data.error # <<>> THEN data.error
                                             ELSE RequestFailed(turns[t].status)])
            /\ turns' = [turns EXCEPT ![t].pc = "done", ![t].caught = TRUE,
                                      ![t].promise = "fulfilled"]
       ELSE /\ messages' = messages
            /\ turns' = [turns EXCEPT ![t].pc = "done", ![t].promise = "fulfilled"]
    /\ UNCHANGED <<isStreaming, abortRef, aborted, rendered>>

\* res.json() resolves with data, the fields of the new classification laid
\* over those of the previous one
JsonResolvesMerging(t, data) ==
    /\ turns[t].pc = "json"
    /\ turns[t].inferSignal \notin aborted
    /\ IF ~Ok(turns[t].status)
       THEN CatchFinally(t, [isError |-> TRUE,
                             message |-> IF data.error # <<>> THEN data.error
                                         ELSE RequestFailed(turns[t].status)])
       ELSE /\ inference' =
                  IF data.inference = NoInference THEN inference
                  ELSE IF inference = NoInference THEN data.inference
                  ELSE [f \in DOMAIN inference |->
                           IF data.inference[f] # "" THEN data.inference[f]
                           ELSE inference[f]]
            /\ isLoading' = FALSE
            /\ turns' = [turns EXCEPT ![t].pc = "done", ![t].promise = "fulfilled"]
            /\ UNCHANGED <<messages, isStreaming, abortRef, aborted, rendered>>

\* res.json() resolves with data; lines 140-143, then catch or finally
JsonResolves(t, data) ==
    /\ turns[t].pc = "json"
    /\ turns[t].inferSignal \notin aborted
    /\ IF ~Ok(turns[t].status)
       THEN CatchFinally(t, [isError |-> TRUE,
                             message |-> IF data.error # <<>> THEN data.error
                                         ELSE RequestFailed(turns[t].status)])
       ELSE /\ inference' = IF data.inference # NoInference THEN data.inference
                            ELSE inference
            /\ isLoading' = FALSE
            /\ turns' = [turns EXCEPT ![t].pc = "done", ![t].promise = "fulfilled"]
            /\ UNCHANGED <<messages, isStreaming, abortRef, aborted, rendered>>

\* res.json() rejects: the body is not JSON
JsonRejects(t) ==
    /\ turns[t].pc = "json"
    /\ turns[t].inferSignal \notin aborted
    /\ CatchFinally(t, SyntaxError)

\* The await turn t is suspended on rejects because its signal was aborted
Aborted(t) ==
    /\ InFlight(turns[t])
    /\ AwaitSignal(turns[t]) \in aborted
    /\ CatchFinally(t, AbortError)

\* clear()
Clear ==
    /\ aborted' = AbortCurrent
    /\ messages' = <<>>
    /\ UNCHANGED <<isLoading, isStreaming, inference, abortRef, rendered, turns>>

Next ==
    \/ \E userText \in UserTexts : Send(userText, MaxTurns) /\ UNCHANGED server
    \/ Render /\ UNCHANGED server
    \/ \E t \in 1..Len(turns), ok \in BOOLEAN :
          StreamResponse(t, ok) /\ UNCHANGED server
    \/ \E t \in 1..Len(turns) : StreamFetchRejects(t) /\ UNCHANGED server
    \/ \E t \in 1..Len(turns), chunk \in Chunks :
          StreamChunk(t, chunk, MaxChunks) /\ UNCHANGED server
    \/ \E t \in 1..Len(turns) : StreamEnd(t) /\ UNCHANGED server
    \/ \E t \in 1..Len(turns) : ReadRejects(t) /\ UNCHANGED server
    \/ \E t \in 1..Len(turns), status \in InferStatuses :
          InferResponse(t, status) /\ UNCHANGED server
    \/ \E t \in 1..Len(turns) : InferFetchRejects(t) /\ UNCHANGED server
    \/ \E t \in 1..Len(turns), data \in InferBodies :
          JsonResolves(t, data) /\ UNCHANGED server
    \/ \E t \in 1..Len(turns) : JsonRejects(t) /\ UNCHANGED server
    \/ \E t \in 1..Len(turns) : Aborted(t) /\ UNCHANGED server
    \/ Clear /\ UNCHANGED server

Spec == Init /\ [][Next]_vars

\* The same machine with fewer turns and longer streams
NextStream ==
    \/ \E userText \in UserTexts :
          Send(userText, MaxStreamTurns) /\ UNCHANGED server
    \/ Render /\ UNCHANGED server
    \/ \E t \in 1..Len(turns), ok \in BOOLEAN :
          StreamResponse(t, ok) /\ UNCHANGED server
    \/ \E t \in 1..Len(turns) : StreamFetchRejects(t) /\ UNCHANGED server
    \/ \E t \in 1..Len(turns), chunk \in Chunks :
          StreamChunk(t, chunk, MaxStreamChunks) /\ UNCHANGED server
    \/ \E t \in 1..Len(turns) : StreamEnd(t) /\ UNCHANGED server
    \/ \E t \in 1..Len(turns) : ReadRejects(t) /\ UNCHANGED server
    \/ \E t \in 1..Len(turns), status \in InferStatuses :
          InferResponse(t, status) /\ UNCHANGED server
    \/ \E t \in 1..Len(turns) : InferFetchRejects(t) /\ UNCHANGED server
    \/ \E t \in 1..Len(turns), data \in InferBodies :
          JsonResolves(t, data) /\ UNCHANGED server
    \/ \E t \in 1..Len(turns) : JsonRejects(t) /\ UNCHANGED server
    \/ \E t \in 1..Len(turns) : Aborted(t) /\ UNCHANGED server
    \/ Clear /\ UNCHANGED server

SpecStream == Init /\ [][NextStream]_vars

\* What an await of send() can reject with: an Error with a message, an
\* Error without one, a value that is not an Error
Thrown == { NetworkError, SyntaxError, EmptyError, NotAnError }

\* The await turn t is suspended on rejects with err
Rejects(t, err) ==
    /\ InFlight(turns[t])
    /\ AwaitSignal(turns[t]) \notin aborted
    /\ CatchFinally(t, err)

\* A single turn whose awaits reject with any thrown value
NextThrown ==
    \/ \E userText \in UserTexts :
          Send(userText, MaxThrownTurns) /\ UNCHANGED server
    \/ Render /\ UNCHANGED server
    \/ \E t \in 1..Len(turns), ok \in BOOLEAN :
          StreamResponse(t, ok) /\ UNCHANGED server
    \/ \E t \in 1..Len(turns), chunk \in Chunks :
          StreamChunk(t, chunk, MaxThrownChunks) /\ UNCHANGED server
    \/ \E t \in 1..Len(turns) : StreamEnd(t) /\ UNCHANGED server
    \/ \E t \in 1..Len(turns), status \in InferStatuses :
          InferResponse(t, status) /\ UNCHANGED server
    \/ \E t \in 1..Len(turns), data \in InferBodies :
          JsonResolves(t, data) /\ UNCHANGED server
    \/ \E t \in 1..Len(turns), err \in Thrown : Rejects(t, err) /\ UNCHANGED server
    \/ \E t \in 1..Len(turns) : Aborted(t) /\ UNCHANGED server
    \/ Clear /\ UNCHANGED server

SpecThrown == Init /\ [][NextThrown]_vars

\* The await turn t is suspended on settles: its request resolves or rejects,
\* its stream ends or breaks, or its signal's abort rejects it
TurnStep(t) ==
    /\ t \in 1..Len(turns)
    /\ \/ \E ok \in BOOLEAN : StreamResponse(t, ok)
       \/ StreamFetchRejects(t)
       \/ StreamEnd(t)
       \/ ReadRejects(t)
       \/ \E status \in InferStatuses : InferResponse(t, status)
       \/ InferFetchRejects(t)
       \/ \E data \in InferBodies : JsonResolves(t, data)
       \/ JsonRejects(t)
       \/ Aborted(t)
    /\ UNCHANGED server

\* The machine when every pending await settles and React re-renders after
\* a state change
SpecFair ==
    /\ Init /\ [][Next]_vars
    /\ WF_vars(Render /\ UNCHANGED server)
    /\ \A t \in 1..MaxTurns : WF_vars(TurnStep(t))

---------------------------------------------------------------------------
(* The route at work *)

\* The route takes the request of turn t of the hook (t = 0: of another
\* client) and runs POST up to its return
Post(t, raw, env) ==
    /\ server.pc = "idle"
    /\ LET body == BodyFields(raw)
           res == POST(server.apiKey, body, env)
       IN  server' = [server EXCEPT
                         !.pc = IF res.streams THEN "streaming" ELSE "idle",
                         !.for = t,
                         !.body = body,
                         !.res = res,
                         !.upstream = <<>>,
                         !.closes = 0,
                         !.chunks = IF res.streams THEN <<>> ELSE BodyChunks(res),
                         !.closed = ~res.streams,
                         !.ended = "no",
                         !.delivered = 0]

\* One turn of the for await loop of start(): lines 96-98
PumpChunk(chunk, max) ==
    /\ server.pc = "streaming"
    /\ Len(server.upstream) < max
    /\ server' = [server EXCEPT
                     !.upstream = Append(@, chunk),
                     !.chunks = Enqueue(@, DeltaContent(chunk))]

\* The provider's stream is exhausted: finally, controller.close()
PumpEnd ==
    /\ server.pc = "streaming"
    /\ server' = [server EXCEPT !.pc = "idle", !.closed = TRUE, !.closes = @ + 1,
                                !.ended = "done"]

\* The provider's stream throws and close() is in the try, not in a finally
PumpThrowsUnclosed ==
    /\ server.pc = "streaming"
    /\ server' = [server EXCEPT !.pc = "idle", !.ended = "threw"]

\* The provider's stream throws: the catch ignores it; finally, close()
PumpThrows ==
    /\ server.pc = "streaming"
    /\ server' = [server EXCEPT !.pc = "idle", !.closed = TRUE, !.closes = @ + 1,
                                !.ended = "threw"]

\* The bodies clients post: the two of the hook, and bodies without the
\* stream flag, without a system message, without messages
EndpointBodies ==
    { StreamRequest(<<>>, <<"h">>),
      InferRequest(<<>>, <<"h">>, <<"a">>),
      [messages |-> <<[role |-> "user", content |-> <<"h">>]>>],
      [messages |-> <<[role |-> "user", content |-> <<"h">>]>>, stream |-> TRUE],
      [stream |-> FALSE],
      [inferOnly |-> TRUE, stream |-> TRUE, lastAnswer |-> <<"a">>],
      [malformed |-> TRUE] }

\* The route with or without its API key
InitServed == HookInit /\ server \in { FreshServer(apiKey) : apiKey \in BOOLEAN }

\* The route alone, serving any client
NextEndpoint ==
    \/ \E raw \in EndpointBodies, env \in Envs : Post(0, raw, env) /\ UNCHANGED hook
    \/ \E chunk \in ProviderChunks : PumpChunk(chunk, MaxDeltas) /\ UNCHANGED hook
    \/ PumpEnd /\ UNCHANGED hook
    \/ PumpThrows /\ UNCHANGED hook

SpecEndpoint == InitServed /\ [][NextEndpoint]_vars

---------------------------------------------------------------------------
(* The hook served by the route: the fetches of a turn resolve with what   *)
(* POST returns for the body the turn sent                                 *)

\* The stream fetch of turn t reaches the route and resolves with its response
ServeStream(t, env) ==
    /\ turns[t].pc = "fetchStream"
    /\ turns[t].signal \notin aborted
    /\ Post(t, turns[t].streamBody, env)
    /\ StreamResponse(t, Ok(server'.res.status))

\* reader.read() resolves with the next chunk of the response body
ServedChunk(t, max) ==
    /\ server.for = t
    /\ turns[t].pc = "read"
    /\ server.delivered < Len(server.chunks)
    /\ StreamChunk(t, server.chunks[server.delivered + 1], max)
    /\ server' = [server EXCEPT !.delivered = @ + 1]

\* reader.read() resolves with done: the body is closed and read to its end
ServedEnd(t) ==
    /\ server.for = t
    /\ turns[t].pc = "read"
    /\ server.closed
    /\ server.delivered = Len(server.chunks)
    /\ StreamEnd(t)
    /\ UNCHANGED server

\* The classification fetch of turn t reaches the route
ServeInfer(t, env) ==
    /\ turns[t].pc = "fetchInfer"
    /\ turns[t].inferSignal \notin aborted
    /\ Post(t, turns[t].inferBody, env)
    /\ InferResponse(t, server'.res.status)

\* res.json() of the classification response
ServedJson(t) ==
    /\ server.for = t
    /\ turns[t].pc = "json"
    /\ IF server.res.type = "application/json"
       THEN JsonResolves(t, server.res.doc)
       ELSE JsonRejects(t)
    /\ UNCHANGED server

\* The environments and the provider chunks the served hook is run against
ServedEnvs ==
    [conv : { Gave(<<>>), Gave(<<"a">>) },
     chat : { Threw, Gave(<<"a">>) },
     infer : { Gave(BookJson), Gave(BlankJson), Gave(PodcastJson) }]

ServedProviderChunks == ProviderChunks

\* The chunks a served turn can read: more than the route ever enqueues
ServedChunks == MaxServedTurns * (MaxServedDeltas + 1)

NextServed ==
    \/ \E userText \in UserTexts :
          Send(userText, MaxServedTurns) /\ UNCHANGED server
    \/ Render /\ UNCHANGED server
    \/ \E t \in 1..Len(turns), env \in ServedEnvs : ServeStream(t, env)
    \/ \E chunk \in ServedProviderChunks :
          PumpChunk(chunk, MaxServedDeltas) /\ UNCHANGED hook
    \/ PumpEnd /\ UNCHANGED hook
    \/ PumpThrows /\ UNCHANGED hook
    \/ \E t \in 1..Len(turns) : ServedChunk(t, ServedChunks)
    \/ \E t \in 1..Len(turns) : ServedEnd(t)
    \/ \E t \in 1..Len(turns), env \in ServedEnvs : ServeInfer(t, env)
    \/ \E t \in 1..Len(turns) : ServedJson(t)
    \/ \E t \in 1..Len(turns) : Aborted(t) /\ UNCHANGED server
    \/ Clear /\ UNCHANGED server

SpecServed == InitServed /\ [][NextServed]_vars

---------------------------------------------------------------------------
(* Vocabulary of the properties *)

Turns == 1..Len(turns)

Last(seq) == seq[Len(seq)]

IsPlaceholder(m) == m.id = StreamId

EndsWithCursor(m) == m.content # <<>> /\ Last(m.content) = Cursor

NoTurnInFlight == \A t \in Turns : turns[t].pc = "done"

\* Turn t takes a step of its own
Steps(t) == turns'[t] # turns[t]

\* The bytes turn t has read off its stream, in arrival order
Received(t) == Flatten(turns[t].chunks)

---------------------------------------------------------------------------
(* C1: single in-flight.  A send() is accepted only when every earlier     *)
(* turn has cleared isLoading; a send() issued before that appends no      *)
(* message, issues no request and aborts nothing, also when it goes        *)
(* through the same callback as the accepted one.                          *)

C1_SingleInFlight ==
    [][Len(turns') > Len(turns) => \A t \in Turns : turns[t].pc = "done"]_vars

(* C2: placeholder exclusivity.  The list holds at most one message with   *)
(* the id "__stream", and if it holds one it is the last element.          *)

C2_PlaceholderExclusive ==
    /\ Cardinality({i \in 1..Len(messages) : IsPlaceholder(messages[i])}) <= 1
    /\ \A i \in 1..Len(messages) : IsPlaceholder(messages[i]) => i = Len(messages)

(* C3: cancellation supersession.  Once a later turn has started, no step  *)
(* of an earlier turn (chunk, end or failure) changes the message list.    *)

C3_SupersededTurnIsSilent ==
    [][\A a \in Turns : (a < Len(turns) /\ Steps(a)) => messages' = messages]_vars

(* C4: finalization on stream end.  When a turn's stream ends normally    *)
(* the placeholder is removed and, if the accumulated text is not empty,   *)
(* exactly one assistant message with that text, without the cursor and    *)
(* with an id other than "__stream", is appended after the messages that   *)
(* were there; a turn finalizes at most once.                              *)

StreamEnds(t) == turns[t].pc = "read" /\ turns'[t].pc = "fetchInfer"

\* The text the chunks of turn t decode to, read as one stream
StreamText(t) == DecodeStream(<<>>, Received(t)).out

Settled(list) == SelectSeq(list, LAMBDA m : ~IsPlaceholder(m))

C4_FinalizedOnce(t) ==
    /\ turns'[t].nfinal <= 1
    /\ StreamEnds(t) =>
        /\ turns'[t].nfinal = 1
        /\ \A i \in 1..Len(messages') : ~IsPlaceholder(messages'[i])
        /\ IF StreamText(t) = <<>>
           THEN messages' = Settled(messages)
           ELSE /\ Len(messages') = Len(Settled(messages)) + 1
                /\ SubSeq(messages', 1, Len(messages') - 1) = Settled(messages)
                /\ Last(messages').role = "assistant"
                /\ Last(messages').content = StreamText(t)
                /\ Last(messages').id # StreamId
                /\ ~EndsWithCursor(Last(messages'))
                /\ \A i \in 1..Len(messages) : messages[i].id # Last(messages').id

\* C4: every step of every turn finalizes as stated, and at most once
C4_Finalization == [][\A t \in Turns : C4_FinalizedOnce(t)]_vars

\* A stream that delivered text has ended and its final message is in the list
C4_Witness ==
    \E t \in Turns :
        /\ turns[t].eos /\ turns[t].chunks # <<>> /\ turns[t].assistantText # <<>>
        /\ \E i \in 1..Len(messages) :
            messages[i] = AssistantMsg(Uuid("final", t), turns[t].assistantText)

(* C5: ordering.  After the k-th chunk of a turn is applied the            *)
(* placeholder is the last message and holds the text of chunks 1..k in    *)
(* arrival order followed by the cursor; the final message holds the text  *)
(* of all the chunks in arrival order.                                     *)

ChunkApplied(t) == Len(turns'[t].chunks) > Len(turns[t].chunks)

C5_InOrder(t) ==
    /\ ChunkApplied(t) =>
        /\ messages' # <<>>
        /\ IsPlaceholder(Last(messages'))
        /\ Last(messages').content =
              DecodeStream(<<>>, Flatten(turns'[t].chunks)).out \o <<Cursor>>
    /\ (StreamEnds(t) /\ messages' # Settled(messages)) =>
        Last(messages').content = StreamText(t)

\* C5: every chunk step and every stream end keeps the arrival order
C5_Ordering == [][\A t \in Turns : C5_InOrder(t)]_vars

\* Two chunks arrived, the second completing the character the first began
C5_Witness ==
    \E t \in Turns :
        /\ turns[t].pc = "read"
        /\ turns[t].chunks = <<(<<195>>), (<<169>>)>>
        /\ messages # <<>>
        /\ Last(messages) = AssistantMsg(StreamId, <<"U+00E9", Cursor>>)

(* C6: streaming convergence.  However the bytes are split into chunks,    *)
(* the final message holds the UTF-8 decoding of the whole byte sequence,  *)
(* the decoder's held bytes being flushed at end of stream.                *)

C6_Converges(t) ==
    StreamEnds(t) =>
        IF Utf8Decode(Received(t)) = <<>>
        THEN messages' = Settled(messages)
        ELSE /\ messages' # <<>>
             /\ Last(messages') = AssistantMsg(Uuid("final", t), Utf8Decode(Received(t)))

\* C6: every stream end leaves the UTF-8 decoding of all the bytes received
C6_Convergence == [][\A t \in Turns : C6_Converges(t)]_vars

(* C7: empty stream.  A turn whose stream ended with no byte received      *)
(* has appended no assistant message, and isLoading is false once no turn  *)
(* is in flight.                                                           *)

AppendedByTurn(t) ==
    {i \in 1..Len(messages) : messages[i].id \in {Uuid("final", t), Uuid("error", t)}}

\* C7: an empty stream leaves no assistant message of its turn, and isLoading clears
C7_EmptyStream ==
    /\ \A t \in Turns :
        (turns[t].pc = "done" /\ turns[t].eos /\ turns[t].chunks = <<>>)
            => AppendedByTurn(t) = {}
    /\ NoTurnInFlight => ~isLoading

(* C8: a transport failure is surfaced.  A turn whose streaming response   *)
(* had a non-success status ends with its error message appended.          *)

C8_FailureSurfaced ==
    \A t \in Turns :
        (turns[t].pc = "done" /\ turns[t].streamOk = "notok") => turns[t].caught

(* C9: after a failure the machine is idle.  No state has isLoading false, *)
(* no turn in flight and isStreaming true.                                 *)

C9_IdleAfterFailure == (NoTurnInFlight /\ ~isLoading) => ~isStreaming

(* C10: the placeholder does not survive a failure.  Once no turn is in    *)
(* flight, no message has the id "__stream" and no content ends in the     *)
(* cursor.                                                                 *)

C10_PlaceholderRemoved ==
    NoTurnInFlight =>
        \A i \in 1..Len(messages) :
            ~IsPlaceholder(messages[i]) /\ ~EndsWithCursor(messages[i])

(* C11: cancellation is not an error.  A step of a turn whose request was  *)
(* cancelled (its signal aborted by a later send() or by clear()) appends  *)
(* no message, and leaves the list without the placeholder.                *)

CancelledStep(t) ==
    InFlight(turns[t]) /\ AwaitSignal(turns[t]) \in aborted /\ Steps(t)

\* C11: the step of a cancelled turn leaves the list as it was, placeholder removed
C11_CancellationIsSilent ==
    [][\A t \in Turns : CancelledStep(t) => messages' = Settled(messages)]_vars

(* C12: classification is best-effort.  When the stream of a turn ended    *)
(* normally and its classification request then fails (the fetch rejects,  *)
(* the status is not a success, the body does not parse), the turn ends    *)
(* with the message list as finalization left it and isLoading false.      *)

\* The classification await of turn t throws, or its status check does
ClassificationThrows(t) ==
    /\ turns[t].pc \in {"fetchInfer", "json"}
    /\ turns'[t].pc = "done"
    /\ turns'[t].caught

ClassificationFails(t) ==
    ClassificationThrows(t) /\ turns[t].inferSignal \notin aborted

\* C12: a failed classification adds no message and clears isLoading
C12_ClassificationBestEffort ==
    [][\A t \in Turns :
         (turns[t].eos /\ ClassificationFails(t))
             => (messages' = messages /\ ~isLoading')]_vars

(* C13: a failed classification leaves the inference alone.  The step on   *)
(* which a turn's classification fails does not change inference, and      *)
(* inference changes only on the step that ends a turn with a parsed       *)
(* success response, so at the failure it is what it was when the turn     *)
(* began.                                                                  *)

ClassificationSucceeds(t) ==
    /\ turns[t].pc = "json"
    /\ Ok(turns[t].status)
    /\ turns'[t].pc = "done"
    /\ ~turns'[t].caught

\* C13: inference is unchanged by a failing classification and by every other
\* step but a successful one
C13_FailureKeepsInference ==
    [][/\ \A t \in Turns : ClassificationThrows(t) => inference' = inference
       /\ inference' # inference => \E t \in Turns : ClassificationSucceeds(t)]_vars

\* A turn was classified, and a later turn's classification got a 500: the
\* earlier classification is still held
C13_Witness ==
    \E a, b \in Turns :
        /\ a < b
        /\ turns[a].pc = "done" /\ ~turns[a].caught
        /\ turns[b].pc = "done" /\ turns[b].caught
        /\ turns[b].inferBody # NoRequest /\ turns[b].status = 500
        /\ turns[b].inferSignal \notin aborted
        /\ inference = Book

(* C14: reset.  clear() in any state leaves an empty message list,         *)
(* inference null, isLoading false and isStreaming false.                  *)

C14_ResetLeavesIdle ==
    [][Clear => /\ messages' = <<>>
                /\ inference' = NoInference
                /\ ~isLoading'
                /\ ~isStreaming']_vars

(* C15: reset is safe mid-turn.  After clear() has cancelled the turn in   *)
(* flight, no step of that turn adds to the message list: the list is      *)
(* still empty after it.                                                   *)

\* The latest turn is cancelled only by clear(): a send() aborts earlier turns
ClearedStep(t) == t = Len(turns) /\ CancelledStep(t)

\* C15: the step of a turn cancelled by clear() leaves the list empty
C15_ResetSafeMidTurn ==
    [][\A t \in Turns : ClearedStep(t) => messages' = <<>>]_vars

(* C16: request history.  The streaming request of an accepted send()      *)
(* carries the system message, then the (role, content) of every message   *)
(* of the list at the moment of the call, in order, then the new user      *)
(* message.                                                                *)

Accepted == Len(turns') = Len(turns) + 1

ListHistory == [i \in 1..Len(messages) |-> RoleContent(messages[i])]

\* C16: an accepted send() requests with the list as it is at the call
C16_RequestHistory ==
    [][Accepted =>
         Last(turns').streamBody.messages =
             <<SystemMessage>> \o ListHistory \o <<RoleContent(Last(messages'))>>]_vars

(* C17: the cursor is display-only.  No request body, streaming or         *)
(* classification, holds a message whose content has the cursor glyph.     *)

HasCursor(content) == \E i \in 1..Len(content) : content[i] = Cursor

\* C17: no message of any request issued has the cursor in its content
C17_CursorNeverSent ==
    \A t \in Turns :
        /\ \A i \in 1..Len(turns[t].streamBody.messages) :
              ~HasCursor(turns[t].streamBody.messages[i].content)
        /\ \A i \in 1..Len(turns[t].inferBody.messages) :
              ~HasCursor(turns[t].inferBody.messages[i].content)

(* C18: the classification request.  It carries as lastAnswer the text     *)
(* the turn finalized (empty when no message was appended) and the         *)
(* messages of the turn's streaming request, ending with the turn's user   *)
(* message: the reply of the turn is not among them.                       *)

Classifies(t) == turns[t].inferBody = NoRequest /\ turns'[t].inferBody # NoRequest

\* The text the finalization of this step left in the list
FinalizedText ==
    IF messages' = Settled(messages) THEN <<>> ELSE Last(messages').content

C18_Request(t) ==
    /\ Classifies(t) =>
        /\ turns'[t].inferBody.inferOnly
        /\ turns'[t].inferBody.lastAnswer = FinalizedText
        /\ turns'[t].inferBody.messages = turns[t].streamBody.messages
        /\ Last(turns'[t].inferBody.messages) =
              [role |-> "user", content |-> turns[t].text]
        /\ Len(turns'[t].inferBody.messages) = Len(turns[t].history) + 2
    /\ turns'[t].streamBody = turns[t].streamBody
    /\ turns[t].inferBody # NoRequest => turns'[t].inferBody = turns[t].inferBody

\* C18: every classification request is built from the finalized text and
\* the history of the turn's submission
C18_ClassifierRequest == [][\A t \in Turns : C18_Request(t)]_vars

\* A turn sent with messages already in the list has classified a reply
C18_Witness ==
    \E t \in Turns :
        /\ turns[t].history # <<>>
        /\ turns[t].inferBody # NoRequest
        /\ turns[t].inferBody.lastAnswer # <<>>
        /\ \E i \in 1..Len(messages) :
            messages[i] = AssistantMsg(Uuid("final", t), turns[t].inferBody.lastAnswer)

(* C19: phase ordering of a successful turn.  The user message is          *)
(* appended and isLoading set with the streaming request; then chunks are  *)
(* applied; then the placeholder is finalized with isStreaming cleared     *)
(* and the classification request issued; then the classification          *)
(* response is read and isLoading cleared.  No classification request      *)
(* precedes finalization, and while a turn that was not cancelled is in    *)
(* flight isLoading is true.                                               *)

C19_Start ==
    Accepted =>
        /\ Last(turns').pc = "fetchStream"
        /\ Last(turns').chunks = <<>> /\ Last(turns').nfinal = 0
        /\ Last(turns').inferBody = NoRequest
        /\ Last(messages') = UserMsg(Last(messages').id, Last(turns').text)
        /\ isLoading'

C19_Step(t) ==
    (Steps(t) /\ ~turns'[t].caught) =>
        \/ /\ turns[t].pc = "fetchStream" /\ turns'[t].pc = "read"
           /\ messages' = messages
        \/ /\ turns[t].pc = "read" /\ turns'[t].pc = "read"
           /\ ChunkApplied(t) /\ turns'[t].nfinal = 0
        \/ /\ turns[t].pc \in {"fetchStream", "read"} /\ turns'[t].pc = "fetchInfer"
           /\ turns[t].nfinal = 0 /\ turns'[t].nfinal = 1
           /\ Classifies(t)
           /\ ~isStreaming'
           /\ \A i \in 1..Len(messages') : ~IsPlaceholder(messages'[i])
        \/ /\ turns[t].pc = "fetchInfer" /\ turns'[t].pc = "json"
           /\ messages' = messages
        \/ /\ turns[t].pc = "json" /\ turns'[t].pc = "done"
           /\ messages' = messages
           /\ ~isLoading'

\* A turn that is in flight and was not cancelled
Running(t) == InFlight(turns[t]) /\ AwaitSignal(turns[t]) \notin aborted

C19_Loading == \A t \in Turns : Running(t) => isLoading

\* C19: the steps of a turn come in the stated order, and isLoading is true
\* until the turn's classification has completed or failed
C19_PhaseOrdering ==
    [][C19_Start /\ (\A t \in Turns : C19_Step(t)) /\ C19_Loading']_vars

(* C20: termination.  When every pending request settles, a state with a   *)
(* turn in flight leads to one with no turn in flight, isLoading false     *)
(* and the send callback accepting a non-empty text.                       *)

Idle == NoTurnInFlight /\ ~isLoading

\* The guard of send() lets a non-empty text through
Accepting == ~rendered.isLoading

\* C20: every turn in flight leads to Idle, with send() accepting again
C20_Termination == (~NoTurnInFlight) ~> (Idle /\ Accepting)

\* A turn failed, the next send() was accepted and its turn ended too
C20_Witness ==
    /\ Len(turns) = 2
    /\ turns[1].caught /\ ~turns[2].caught
    /\ Idle /\ Accepting

(* C21: no failure escapes send().  The promise of a turn is never         *)
(* rejected: it is fulfilled when the turn ends, whatever threw, and a     *)
(* turn that threw has appended one assistant-role message.                *)

Throws(t) == turns'[t].caught /\ ~turns[t].caught

C21_Step(t) ==
    /\ turns'[t].promise # "rejected"
    /\ (turns'[t].pc = "done") <=> (turns'[t].promise = "fulfilled")
    /\ (turns[t].pc # "done" /\ turns'[t].pc = "done" /\ ~ClassificationSucceeds(t))
          => Throws(t)
    /\ Throws(t) =>
        /\ Len(messages') = Len(messages) + 1
        /\ SubSeq(messages', 1, Len(messages)) = messages
        /\ Last(messages').role = "assistant"

\* C21: every turn ends with its promise fulfilled, a failure as a message
C21_NeverRejects == [][\A t \in Turns : C21_Step(t)]_vars

\* The stream broke, the classification failed, a request was cancelled:
\* a turn ended in the catch, its promise fulfilled and its message in the list
C21_Witness ==
    \E t \in Turns :
        /\ turns[t].pc = "done" /\ turns[t].caught
        /\ turns[t].chunks # <<>>
        /\ turns[t].promise = "fulfilled"
        /\ \E i \in 1..Len(messages) : messages[i].id = Uuid("error", t)

(* C23: messages are append-only.  Every step other than clear() keeps     *)
(* the messages that are not the placeholder, unchanged and in order, as   *)
(* a prefix of the new ones, and a message it adds is the last of the      *)
(* list.                                                                   *)

IsPrefix(p, q) == Len(p) <= Len(q) /\ SubSeq(q, 1, Len(p)) = p

AppendOnly ==
    /\ IsPrefix(Settled(messages), Settled(messages'))
    /\ Len(Settled(messages')) <= Len(Settled(messages)) + 1
    /\ Settled(messages') # Settled(messages) =>
          Last(messages') = Last(Settled(messages'))

\* C23: a step is clear() or appends only
C23_AppendOnly == [][Clear \/ AppendOnly]_vars

\* The second turn streams after a first one left its reply: four messages,
\* the placeholder last
C23_Witness ==
    /\ Len(turns) = 2
    /\ turns[2].chunks # <<>>
    /\ Len(messages) = 4
    /\ messages[2].id = Uuid("final", 1)
    /\ IsPlaceholder(messages[4])


\* A turn that is not cancelled comes to its end in this step
EndsUncancelled(t) ==
    /\ turns[t].pc # "done"
    /\ turns'[t].pc = "done"
    /\ AwaitSignal(turns[t]) \notin aborted

HasUserMessage(list, t) == \E i \in 1..Len(list) : list[i].id = Uuid("user", t)

\* C22: when the endpoint has no API key, a send() that is not cancelled ends
\* with one assistant message carrying the server's error text appended at the
\* end of the list, after the turn's user message, and with isLoading cleared,
\* so that the next render accepts a send()
C22_Step(t) ==
    (~server.apiKey /\ EndsUncancelled(t)) =>
        /\ messages' = Append(messages, AssistantMsg(Uuid("error", t), MissingKey))
        /\ HasUserMessage(messages, t)
        /\ ~isLoading'
        /\ turns'[t].promise = "fulfilled"

C22_ConfigurationError == [][\A t \in Turns : C22_Step(t)]_vars

\* The first send ended with the server's text after its user message and a
\* second send was accepted and ended the same way
C22_Witness ==
    /\ ~server.apiKey
    /\ Len(turns) = 2
    /\ turns[1].pc = "done" /\ turns[2].pc = "done"
    /\ ~isLoading
    /\ messages = <<UserMsg(Uuid("user", 1), turns[1].text),
                    AssistantMsg(Uuid("error", 1), MissingKey),
                    UserMsg(Uuid("user", 2), turns[2].text),
                    AssistantMsg(Uuid("error", 2), MissingKey)>>


\* C24: a successful classification of turn t stores exactly the object the
\* endpoint returned for turn t; nothing of the previous classification is
\* kept, whatever fields of the new one are empty
C24_Step(t) ==
    ClassificationSucceeds(t) =>
        /\ server.for = t
        /\ server.res.doc.inference # NoInference
        /\ inference' = server.res.doc.inference

C24_ReplacedWholesale == [][\A t \in Turns : C24_Step(t)]_vars

\* Two turns were classified, and the second classification, with every field
\* empty, is what is held
C24_Witness ==
    /\ Len(turns) = 2
    /\ \A t \in Turns : turns[t].pc = "done" /\ ~turns[t].caught
    /\ server.for = 2
    /\ server.body.inferOnly
    /\ server.res.doc.inference = Unknown
    /\ inference = Unknown


\* The route has returned a response
Responded == server.res # NoResponse

\* The provider calls the route made for the request it last took
Calls == server.res.calls

\* The call of extractInference the route made for that request, if any
Extracted == { i \in 1..Len(Calls) : Calls[i].purpose = "inference" }

\* The provider call failed, or its text is not the JSON of an object
NoObject(outcome) == outcome.throws \/ outcome.text \in { NotJson, NullJson, <<>> }

\* C25: whenever the route has called extractInference, the call resolved: the
\* response is a 200 carrying its result, never the 500 of the outer catch;
\* and the result is the unknown one when the provider call failed or the
\* model's text is not the JSON of an object
C25_ExtractNeverThrows ==
    (Responded /\ Extracted # {}) =>
        /\ server.res.status = 200
        /\ server.res.doc.inference # NoInference
        /\ \A i \in Extracted :
              NoObject(Calls[i].outcome) => server.res.doc.inference = Unknown

\* A classification-only request whose model answered with JSON null
C25_Witness ==
    /\ Responded
    /\ server.body.inferOnly
    /\ Len(Calls) = 1
    /\ Calls[1].outcome = Gave(NullJson)
    /\ server.res.status = 200
    /\ server.res.doc.inference = Unknown


\* The media types of a classification result, with the unknown one
MediaTypes == { "movie", "series", "anime", "book", "videogame", "" }

\* C26: the mediaType of the classification result the hook holds, produced
\* by the endpoint, is one of the five media types or the unknown value
C26_MediaTypeEnum ==
    inference # NoInference => inference.mediaType \in MediaTypes


\* The request the route last took asks for the answer as a stream
StreamAsked == server.body.parsed /\ server.body.stream /\ ~server.body.inferOnly

\* The characters of the JSON framing of a response document
Framing == { "{", "}" }

Framed(content) == \E k \in 1..Len(content) : content[k] \in Framing

\* The final messages in the list
Finals == { i \in 1..Len(messages) :
              \E t \in Turns : messages[i].id = Uuid("final", t) }

\* A successful response to a request for a stream is a text/plain byte
\* stream, with no JSON document
StreamIsText ==
    (Responded /\ StreamAsked /\ Ok(server.res.status)) =>
        /\ server.res.type = "text/plain"
        /\ server.res.streams
        /\ server.res.doc = NoDoc

\* C27: every successful response to a request with stream = true and
\* inferOnly = false is a raw text/plain byte stream, never a JSON document,
\* and the text the client finalizes carries no framing of a JSON document
C27_RawTextStream ==
    /\ StreamIsText
    /\ \A i \in Finals : ~Framed(messages[i].content)


\* The positions of the system-role messages of a message list
SystemAt(list) == { k \in 1..Len(list) : list[k].role = "system" }

\* The completion calls the route made for the request it last took
Completions == { i \in 1..Len(Calls) : Calls[i].purpose = "completion" }

\* C28: for a request that is not classification-only, every message list the
\* endpoint passes to the completion provider starts with the endpoint's
\* instructions and has no other system-role message; and the messages field
\* of the hook's stream request has no system-role message
C28_InstructionsInjected ==
    /\ (Responded /\ server.body.parsed /\ ~server.body.inferOnly) =>
           \A i \in Completions :
               /\ Calls[i].messages[1] = Instructions
               /\ SystemAt(Calls[i].messages) = {1}
    /\ \A t \in Turns : SystemAt(turns[t].streamBody.messages) = {}


\* A response with a JSON document for its body
IsJson == server.res.type = "application/json"

\* A provider call made outside extractInference rejected, or the body of the
\* request was not JSON: something was thrown inside the try of POST
ThrownInPost ==
    \/ ~server.body.parsed
    \/ \E i \in Completions :
          /\ Calls[i].api = "chat.completions"
          /\ Calls[i].outcome.throws

\* The request did not ask for a stream and the model's answer was empty
EmptyAnswer ==
    /\ ~server.body.stream
    /\ \E i \in Completions :
          /\ Calls[i].api = "chat.completions"
          /\ Calls[i].outcome = Gave(<<>>)

\* C29: a JSON response with a success status carries message or inference;
\* a response with another status is JSON with a non-empty error; a missing
\* key gives 500, an empty answer to a non-streaming request 502, anything
\* thrown 500
C29_ResponseShape ==
    Responded =>
        /\ (IsJson /\ Ok(server.res.status)) =>
               \/ server.res.doc.message # <<>>
               \/ server.res.doc.inference # NoInference
        /\ ~Ok(server.res.status) => (IsJson /\ server.res.doc.error # <<>>)
        /\ (server.body.parsed /\ ~server.apiKey) => server.res.status = 500
        /\ EmptyAnswer => server.res.status = 502
        /\ ThrownInPost => server.res.status = 500

\* A request that asked for no stream got an empty answer from the model and
\* was answered with the 502
C29_Witness ==
    /\ Responded
    /\ server.apiKey
    /\ EmptyAnswer
    /\ server.res.status = 502
    /\ server.res.doc = Doc(<<>>, NoInference, EmptyResponse)


\* A provider chunk that has choices, a delta and a content that is not empty
WellFormed(chunk) == chunk.hasChoices /\ chunk.hasDelta /\ chunk.content # <<>>

\* The provider stream so far consists of malformed chunks only
OnlyMalformed ==
    /\ server.upstream # <<>>
    /\ \A k \in 1..Len(server.upstream) : ~WellFormed(server.upstream[k])

\* The encoded contents of the well-formed chunks among the first n
RECURSIVE Contents(_)
Contents(n) ==
    IF n = 0 THEN <<>>
    ELSE IF WellFormed(server.upstream[n])
    THEN Append(Contents(n - 1), Utf8Encode(server.upstream[n].content))
    ELSE Contents(n - 1)

\* C30: the response stream holds one chunk for each well-formed provider
\* chunk and nothing for a chunk with no choices, no delta or an empty
\* content: it has zero bytes when the provider stream had malformed chunks
\* only, and the turn reading it then has read nothing, shows no text and
\* finalizes no message, as with an empty stream
C30_MalformedIsEmpty ==
    (Responded /\ server.res.streams) =>
        /\ server.chunks = Contents(Len(server.upstream))
        /\ (OnlyMalformed /\ server.for \in Turns) =>
               /\ server.chunks = <<>>
               /\ turns[server.for].chunks = <<>>
               /\ turns[server.for].assistantText = <<>>
               /\ \A i \in 1..Len(messages) :
                      messages[i].id # Uuid("final", server.for)

\* A turn has read to its end a stream made of malformed chunks only and has
\* gone on to its classification request
C30_Witness ==
    /\ Responded /\ server.res.streams
    /\ OnlyMalformed
    /\ server.closed
    /\ server.for \in Turns
    /\ turns[server.for].pc = "fetchInfer"
    /\ turns[server.for].eos
    /\ turns[server.for].signal \notin aborted


\* Turn t has a request pending or a continuation yet to run
Pending(t) == turns[t].pc \in {"fetchStream", "read", "fetchInfer", "json"}

\* C31: isLoading is true in every state in which some turn has a request
\* pending or a continuation yet to run; the finally of a superseded or
\* cancelled turn does not clear it while a newer turn is in flight
C31_LoadingCoversTurn == (\E t \in Turns : Pending(t)) => isLoading


\* The classification request of turn t has been issued
Classifying(t) == turns[t].inferBody # NoRequest

\* The signals of the requests of turn t are those of the controller its
\* send() created, which is controller t
OwnSignals(t) ==
    /\ turns[t].signal = t
    /\ Classifying(t) => turns[t].inferSignal = t

\* C32: both requests of a turn carry the signal of the controller created by
\* that turn's send(), never that of a later turn; and once that controller
\* is aborted, the only step the turn takes, whichever request it awaits, is
\* the handling of the abort
C32_OwnToken ==
    [][\A t \in Turns :
          /\ OwnSignals(t)'
          /\ (t \in aborted /\ Steps(t)) =>
                 /\ InFlight(turns[t])
                 /\ turns'[t].pc = "done"
                 /\ turns'[t].caught
                 /\ Last(messages') = AssistantMsg(Uuid("error", t), AbortError.message)]_vars

\* Two turns have each issued their classification request under their own
\* controller, and the second was cancelled while it awaited the response
C32_Witness ==
    /\ Len(turns) = 2
    /\ Classifying(1) /\ turns[1].inferSignal = 1
    /\ Classifying(2) /\ turns[2].inferSignal = 2
    /\ 2 \in aborted
    /\ turns[2].pc = "done" /\ turns[2].caught
    /\ turns[2].status = 0


\* C33: the message the catch appends is never empty: it holds the message
\* of the caught Error when that is not empty, the fallback text when it is
\* empty, and "Unknown error" when the thrown value is not an Error
C33_Step(t) ==
    Throws(t) =>
        LET err == turns'[t].thrown
            appended == Last(messages')
        IN  /\ appended.id = Uuid("error", t)
            /\ appended.role = "assistant"
            /\ appended.content # <<>>
            /\ (err.isError /\ err.message # <<>>) => appended.content = err.message
            /\ (err.isError /\ err.message = <<>>) => appended.content = Fallback
            /\ ~err.isError => appended.content = <<"Unknown error">>

C33_ErrorTextNeverEmpty == [][\A t \in Turns : C33_Step(t)]_vars

\* An Error with an empty message was caught mid-stream and the fallback
\* text is what the list shows
C33_Witness ==
    \E t \in Turns :
        /\ turns[t].caught
        /\ turns[t].thrown = EmptyError
        /\ turns[t].chunks # <<>>
        /\ Last(messages) = AssistantMsg(Uuid("error", t), Fallback)


\* The text of the well-formed chunks among the first n of the provider stream
RECURSIVE Answer(_)
Answer(n) ==
    IF n = 0 THEN <<>>
    ELSE IF WellFormed(server.upstream[n])
    THEN Answer(n - 1) \o server.upstream[n].content
    ELSE Answer(n - 1)

\* The response stream is open while the provider iteration runs and has
\* been closed once when it has ended, normally or by throwing
ClosedOnce ==
    (Responded /\ server.res.streams) =>
        /\ (server.pc = "streaming") <=> (server.ended = "no")
        /\ server.closes = (IF server.ended = "no" THEN 0 ELSE 1)
        /\ server.closed <=> (server.closes = 1)

\* Turn t reads the response stream of a provider iteration that threw
ReadsBroken(t) ==
    /\ server.for = t
    /\ server.res.streams
    /\ server.ended = "threw"
    /\ turns[t].pc = "read"
    /\ turns[t].signal \notin aborted

\* The step of such a turn is a chunk of the stream or its normal end, never
\* the catch; the end comes when every chunk was read and finalizes the
\* partial answer as the assistant message
SeesNormalEnd(t) ==
    (ReadsBroken(t) /\ Steps(t)) =>
        /\ ~turns'[t].caught
        /\ turns'[t].pc \in {"read", "fetchInfer"}
        /\ turns'[t].pc = "fetchInfer" =>
              /\ server.delivered = Len(server.chunks)
              /\ turns'[t].eos
              /\ turns'[t].assistantText = Answer(Len(server.upstream))
              /\ IF Answer(Len(server.upstream)) # <<>>
                 THEN Last(messages') = AssistantMsg(Uuid("final", t),
                                                     Answer(Len(server.upstream)))
                 ELSE messages' = DropPlaceholder(messages)

\* C34: the response stream is closed exactly once after the provider
\* iteration has ended, whether it ended normally or by throwing; a client
\* reading the stream of an iteration that threw sees a normal end of stream
\* and finalizes the partial text as the assistant message
C34_StreamTerminates ==
    [][ClosedOnce' /\ (\A t \in Turns : SeesNormalEnd(t))]_vars

\* The provider threw after a chunk of text; the turn read the chunk, saw
\* the end of the stream and finalized the text
C34_Witness ==
    /\ Responded /\ server.res.streams
    /\ server.ended = "threw"
    /\ server.closes = 1
    /\ Answer(Len(server.upstream)) # <<>>
    /\ server.for \in Turns
    /\ turns[server.for].pc = "fetchInfer"
    /\ turns[server.for].eos
    /\ ~turns[server.for].caught
    /\ Last(messages) = AssistantMsg(Uuid("final", server.for),
                                     Answer(Len(server.upstream)))


\* A value that is a string: not an absent property, not a number
IsString(v) == v \notin { Undefined, Seven, Zero }

\* C35: for a request with inferOnly = true and the API key present, the
\* endpoint makes the call of extractInference and no completion call,
\* whatever the stream flag, and answers with status 200 and a JSON body that
\* holds an inference with its three fields as strings, whatever the
\* provider does
C35_ClassificationOnly ==
    (Responded /\ server.apiKey /\ server.body.parsed /\ server.body.inferOnly) =>
        /\ Completions = {}
        /\ Len(Calls) = 1 /\ Calls[1].purpose = "inference"
        /\ server.res.status = 200
        /\ IsJson /\ ~server.res.streams
        /\ server.res.doc.message = <<>> /\ server.res.doc.error = <<>>
        /\ server.res.doc.inference # NoInference
        /\ DOMAIN server.res.doc.inference = {"mediaType", "title", "position"}
        /\ \A f \in DOMAIN server.res.doc.inference :
              IsString(server.res.doc.inference[f])

\* A classification-only request with the stream flag set, whose model
\* answered with numbers for two of the fields
C35_Witness ==
    /\ Responded /\ server.apiKey
    /\ server.body.inferOnly /\ server.body.stream
    /\ Calls[1].outcome = Gave(NumberJson)
    /\ server.res.status = 200
    /\ server.res.doc.inference =
           [mediaType |-> "movie", title |-> "7", position |-> ""]

====
